---- MODULE Spec2Model ----
(***************************************************************************)
(* Project Overwatch backend: the per-connection message router of         *)
(* OverwatchServer (server/api/server.py) and SimpleOverwatchServer        *)
(* (server/run_server.py), with the command parser and the templated       *)
(* dialogue manager they call.                                             *)
(*                                                                         *)
(* Text is a sequence of one-character strings, so that substring          *)
(* containment and the regular expressions of the parser are computed and  *)
(* not assumed.                                                            *)
(***************************************************************************)
EXTENDS Integers, Sequences, FiniteSets, TLC

\* Python's None where a string is expected, and where a dict or a match is expected
None == "None"
NoValue == <<>>
\* {}
EmptyDict == <<>>

\* ------------------------------------------------------------------ text

LowerCase == {"a","b","c","d","e","f","g","h","i","j","k","l","m",
              "n","o","p","q","r","s","t","u","v","w","x","y","z"}

UpperToLower ==
    "A" :> "a" @@ "B" :> "b" @@ "C" :> "c" @@ "D" :> "d" @@ "E" :> "e" @@
    "F" :> "f" @@ "G" :> "g" @@ "H" :> "h" @@ "I" :> "i" @@ "J" :> "j" @@
    "K" :> "k" @@ "L" :> "l" @@ "M" :> "m" @@ "N" :> "n" @@ "O" :> "o" @@
    "P" :> "p" @@ "Q" :> "q" @@ "R" :> "r" @@ "S" :> "s" @@ "T" :> "t" @@
    "U" :> "u" @@ "V" :> "v" @@ "W" :> "w" @@ "X" :> "x" @@ "Y" :> "y" @@
    "Z" :> "z"

DigitValue ==
    "0" :> 0 @@ "1" :> 1 @@ "2" :> 2 @@ "3" :> 3 @@ "4" :> 4 @@
    "5" :> 5 @@ "6" :> 6 @@ "7" :> 7 @@ "8" :> 8 @@ "9" :> 9

GridLetterIndex ==
    "a" :> 0 @@ "b" :> 1 @@ "c" :> 2 @@ "d" :> 3 @@ "e" :> 4 @@
    "f" :> 5 @@ "g" :> 6 @@ "h" :> 7 @@ "i" :> 8 @@ "j" :> 9

\* \d, \s and \w of the re module, on the characters the model uses
IsDigit(c) == c \in DOMAIN DigitValue
IsSpace(c) == c = " "
IsWordChar(c) == c \in LowerCase \/ c \in DOMAIN UpperToLower \/ IsDigit(c) \/ c = "_"

\* str.lower()
lower(text) ==
    [i \in 1..Len(text) |->
        IF text[i] \in DOMAIN UpperToLower THEN UpperToLower[text[i]] ELSE text[i]]

\* str.strip()
RECURSIVE lstrip(_)
lstrip(text) ==
    IF text # <<>> /\ IsSpace(Head(text)) THEN lstrip(Tail(text)) ELSE text

RECURSIVE rstrip(_)
rstrip(text) ==
    IF text # <<>> /\ IsSpace(text[Len(text)])
    THEN rstrip(SubSeq(text, 1, Len(text) - 1))
    ELSE text

strip(text) == rstrip(lstrip(text))

\* text[i..] starts with word
StartsWithAt(text, i, word) ==
    /\ i + Len(word) - 1 <= Len(text)
    /\ \A k \in 1..Len(word) : text[i + k - 1] = word[k]

\* Python's `keyword in text`
Contains(text, keyword) ==
    \E i \in 1..(Len(text) - Len(keyword) + 1) : StartsWithAt(text, i, keyword)

\* the first index at or after i that holds no whitespace (Len(text)+1 if none)
RECURSIVE SkipSpaces(_, _)
SkipSpaces(text, i) ==
    IF i <= Len(text) /\ IsSpace(text[i]) THEN SkipSpaces(text, i + 1) ELSE i

\* the first index at or after i that holds no digit
RECURSIVE SkipDigits(_, _)
SkipDigits(text, i) ==
    IF i <= Len(text) /\ IsDigit(text[i]) THEN SkipDigits(text, i + 1) ELSE i

\* \b between text[i-1] and text[i]
WordBoundaryAt(text, i) ==
    LET before == i > 1 /\ i - 1 <= Len(text) /\ IsWordChar(text[i - 1])
        after  == i >= 1 /\ i <= Len(text) /\ IsWordChar(text[i])
    IN  before # after

\* int() of a run of digits
RECURSIVE DigitsToInt(_)
DigitsToInt(digits) ==
    IF digits = <<>> THEN 0
    ELSE 10 * DigitsToInt(SubSeq(digits, 1, Len(digits) - 1))
         + DigitValue[digits[Len(digits)]]

\* ---------------------------------------------------------- CommandParser

phonetic_to_letter ==
    <<<<<<"a", "l", "p", "h", "a">>, <<"a">>>>,
      <<<<"b", "r", "a", "v", "o">>, <<"b">>>>,
      <<<<"c", "h", "a", "r", "l", "i", "e">>, <<"c">>>>,
      <<<<"d", "e", "l", "t", "a">>, <<"d">>>>,
      <<<<"e", "c", "h", "o">>, <<"e">>>>,
      <<<<"f", "o", "x", "t", "r", "o", "t">>, <<"f">>>>,
      <<<<"g", "o", "l", "f">>, <<"g">>>>,
      <<<<"h", "o", "t", "e", "l">>, <<"h">>>>,
      <<<<"i", "n", "d", "i", "a">>, <<"i">>>>,
      <<<<"j", "u", "l", "i", "e", "t">>, <<"j">>>>>>

word_to_number ==
    <<<<<<"o", "n", "e">>, <<"1">>>>,
      <<<<"t", "w", "o">>, <<"2">>>>,
      <<<<"t", "h", "r", "e", "e">>, <<"3">>>>,
      <<<<"f", "o", "u", "r">>, <<"4">>>>,
      <<<<"f", "i", "v", "e">>, <<"5">>>>,
      <<<<"s", "i", "x">>, <<"6">>>>,
      <<<<"s", "e", "v", "e", "n">>, <<"7">>>>,
      <<<<"e", "i", "g", "h", "t">>, <<"8">>>>,
      <<<<"n", "i", "n", "e">>, <<"9">>>>,
      <<<<"t", "e", "n">>, <<"1", "0">>>>,
      <<<<"z", "e", "r", "o">>, <<"0">>>>>>

action_keywords ==
    <<[name |-> "move", keywords |-> <<<<"m", "o", "v", "e">>,
          <<"g", "o">>,
          <<"a", "d", "v", "a", "n", "c", "e">>,
          <<"p", "r", "o", "c", "e", "e", "d">>,
          <<"r", "e", "l", "o", "c", "a", "t", "e">>,
          <<"h", "e", "a", "d">>>>],
      [name |-> "hold", keywords |-> <<<<"h", "o", "l", "d">>,
          <<"s", "t", "o", "p">>,
          <<"s", "t", "a", "y">>,
          <<"h", "a", "l", "t">>,
          <<"w", "a", "i", "t">>,
          <<"p", "o", "s", "i", "t", "i", "o", "n">>>>],
      [name |-> "engage", keywords |-> <<<<"e", "n", "g", "a", "g", "e">>,
          <<"a", "t", "t", "a", "c", "k">>,
          <<"f", "i", "r", "e">>,
          <<"e", "l", "i", "m", "i", "n", "a", "t", "e">>,
          <<"t", "a", "k", "e", " ", "o", "u", "t">>,
          <<"s", "h", "o", "o", "t">>>>],
      [name |-> "cease_fire", keywords |-> <<<<"c", "e", "a", "s", "e", " ", "f", "i", "r", "e">>,
          <<"h", "o", "l", "d", " ", "f", "i", "r", "e">>,
          <<"s", "t", "o", "p", " ", "f", "i", "r", "i", "n", "g">>,
          <<"w", "e", "a", "p", "o", "n", "s", " ", "h", "o", "l", "d">>>>],
      [name |-> "airstrike", keywords |-> <<<<"a", "i", "r", "s", "t", "r", "i", "k", "e">>,
          <<"a", "i", "r", " ", "s", "t", "r", "i", "k", "e">>,
          <<"b", "o", "m", "b">>,
          <<"s", "t", "r", "i", "k", "e">>,
          <<"o", "r", "d", "n", "a", "n", "c", "e">>,
          <<"p", "r", "e", "c", "i", "s", "i", "o", "n", " ", "s", "t", "r", "i", "k", "e">>>>]>>

target_keywords ==
    <<[name |-> "all", keywords |-> <<<<"s", "q", "u", "a", "d">>,
          <<"t", "e", "a", "m">>,
          <<"a", "l", "l">>,
          <<"e", "v", "e", "r", "y", "o", "n", "e">>,
          <<"e", "v", "e", "r", "y", "b", "o", "d", "y">>>>],
      [name |-> "alpha-1", keywords |-> <<<<"a", "l", "p", "h", "a", " ", "1">>,
          <<"a", "l", "p", "h", "a", "-", "1">>,
          <<"a", "l", "p", "h", "a", " ", "o", "n", "e">>,
          <<"o", "n", "e">>>>],
      [name |-> "alpha-2", keywords |-> <<<<"a", "l", "p", "h", "a", " ", "2">>,
          <<"a", "l", "p", "h", "a", "-", "2">>,
          <<"a", "l", "p", "h", "a", " ", "t", "w", "o">>,
          <<"t", "w", "o">>>>],
      [name |-> "alpha-3", keywords |-> <<<<"a", "l", "p", "h", "a", " ", "3">>,
          <<"a", "l", "p", "h", "a", "-", "3">>,
          <<"a", "l", "p", "h", "a", " ", "t", "h", "r", "e", "e">>,
          <<"t", "h", "r", "e", "e">>>>],
      [name |-> "alpha-4", keywords |-> <<<<"a", "l", "p", "h", "a", " ", "4">>,
          <<"a", "l", "p", "h", "a", "-", "4">>,
          <<"a", "l", "p", "h", "a", " ", "f", "o", "u", "r">>,
          <<"f", "o", "u", "r">>>>]>>

\* \bword\b matches at i
WholeWordAt(text, i, word) ==
    /\ StartsWithAt(text, i, word)
    /\ WordBoundaryAt(text, i)
    /\ WordBoundaryAt(text, i + Len(word))

\* (?!\s*\d) holds at i
NotFollowedByDigit(text, i) ==
    LET j == SkipSpaces(text, i)
    IN  ~(j <= Len(text) /\ IsDigit(text[j]))

\* the phonetic pattern as it would be without its lookahead
PhoneticMatchAt_any(text, i, word) == WholeWordAt(text, i, word)

\* rf'\b{phonetic}\b(?!\s*\d)' matches at i
PhoneticMatchAt(text, i, word) ==
    WholeWordAt(text, i, word) /\ NotFollowedByDigit(text, i + Len(word))

\* re.sub(rf'\b{phonetic}\b(?!\s*\d)', letter, text), scanning from index i
RECURSIVE SubPhoneticFrom(_, _, _, _)
SubPhoneticFrom(text, i, word, letter) ==
    IF i > Len(text) THEN <<>>
    ELSE IF PhoneticMatchAt(text, i, word)
         THEN letter \o SubPhoneticFrom(text, i + Len(word), word, letter)
         ELSE <<text[i]>> \o SubPhoneticFrom(text, i + 1, word, letter)

\* re.sub(rf'\b{word}\b', digit, text), scanning from index i
RECURSIVE SubWordFrom(_, _, _, _)
SubWordFrom(text, i, word, digit) ==
    IF i > Len(text) THEN <<>>
    ELSE IF WholeWordAt(text, i, word)
         THEN digit \o SubWordFrom(text, i + Len(word), word, digit)
         ELSE <<text[i]>> \o SubWordFrom(text, i + 1, word, digit)

\* the loop over phonetic_to_letter, entries k.. of the table
RECURSIVE ConvertPhonetics(_, _)
ConvertPhonetics(text, k) ==
    IF k > Len(phonetic_to_letter) THEN text
    ELSE ConvertPhonetics(
            SubPhoneticFrom(text, 1, phonetic_to_letter[k][1], phonetic_to_letter[k][2]),
            k + 1)

\* the loop over word_to_number, entries k.. of the table
RECURSIVE ConvertNumberWords(_, _)
ConvertNumberWords(text, k) ==
    IF k > Len(word_to_number) THEN text
    ELSE ConvertNumberWords(
            SubWordFrom(text, 1, word_to_number[k][1], word_to_number[k][2]),
            k + 1)

_normalize_phonetics(text) == ConvertNumberWords(ConvertPhonetics(text, 1), 1)

\* some keyword of the table entry occurs in text
AnyKeywordIn(entry, text) ==
    \E n \in 1..Len(entry.keywords) : Contains(text, entry.keywords[n])

\* the scan as it would be if a later entry of the table replaced an earlier one
RECURSIVE LastEntryFrom(_, _, _)
LastEntryFrom(table, text, k) ==
    IF k > Len(table) THEN None
    ELSE LET later == LastEntryFrom(table, text, k + 1)
         IN  IF later # None THEN later
             ELSE IF AnyKeywordIn(table[k], text) THEN table[k].name ELSE None

\* the first entry of a keyword table, from entry k on, with a keyword in text
RECURSIVE FirstEntryFrom(_, _, _)
FirstEntryFrom(table, text, k) ==
    IF k > Len(table) THEN None
    ELSE IF AnyKeywordIn(table[k], text) THEN table[k].name
         ELSE FirstEntryFrom(table, text, k + 1)

\* _parse_action as it would be if the scan stopped before the last action
_parse_action_but_last(text) ==
    FirstEntryFrom(SubSeq(action_keywords, 1, Len(action_keywords) - 1), text, 1)

_parse_action(text) == FirstEntryFrom(action_keywords, text, 1)

\* target_keywords without the 'all' entry, which the first loop skips
SpecificTargets == SelectSeq(target_keywords, LAMBDA e : e.name # "all")

_parse_targets(text) ==
    LET specific == FirstEntryFrom(SpecificTargets, text, 1)
    IN  IF specific # None THEN specific ELSE "all"

\* ([a-j])\s*(\d+) under re.IGNORECASE matches at i: <<letter, digits>>, or NoValue
GridCellAt(text, i) ==
    IF i <= Len(text) /\ lower(<<text[i]>>)[1] \in DOMAIN GridLetterIndex
    THEN LET j == SkipSpaces(text, i + 1)
             e == SkipDigits(text, j)
         IN  IF e > j THEN <<lower(<<text[i]>>)[1], SubSeq(text, j, e - 1)>> ELSE NoValue
    ELSE NoValue

\* (?:grid\s+)?([a-j])\s*(\d+) matches at i: the optional group is tried first
GridMatchAt(text, i) ==
    LET g == <<"g", "r", "i", "d">>
        afterGrid == SkipSpaces(text, i + Len(g))
        withGrid ==
            IF StartsWithAt(lower(text), i, g) /\ afterGrid > i + Len(g)
            THEN GridCellAt(text, afterGrid)
            ELSE NoValue
    IN  IF withGrid # NoValue THEN withGrid ELSE GridCellAt(text, i)

\* grid_pattern.search(text): the leftmost match, from index i on
RECURSIVE GridSearchFrom(_, _)
GridSearchFrom(text, i) ==
    IF i > Len(text) THEN NoValue
    ELSE IF GridMatchAt(text, i) # NoValue THEN GridMatchAt(text, i)
         ELSE GridSearchFrom(text, i + 1)

\* _parse_grid as it would be without the check of the number's range
_parse_grid_unchecked(text) ==
    LET match == GridSearchFrom(text, 1)
    IN  IF match = NoValue THEN NoValue
        ELSE LET number    == DigitsToInt(match[2])
                 col_index == GridLetterIndex[match[1]]
                 row_index == number - 1
             IN  [x |-> 10 * col_index - 45, z |-> 10 * row_index - 45]

\* _parse_grid as it would be with the origin at the corner of cell A1
_parse_grid_from_corner(text) ==
    LET match == GridSearchFrom(text, 1)
    IN  IF match = NoValue THEN NoValue
        ELSE LET number    == DigitsToInt(match[2])
                 col_index == GridLetterIndex[match[1]]
                 row_index == number - 1
             IN  IF 1 <= number /\ number <= 10
                 THEN [x |-> 10 * col_index, z |-> 10 * row_index]
                 ELSE NoValue

_parse_grid(text) ==
    LET match == GridSearchFrom(text, 1)
    IN  IF match = NoValue THEN NoValue
        ELSE LET number    == DigitsToInt(match[2])
                 col_index == GridLetterIndex[match[1]]
                 row_index == number - 1
             IN  IF 1 <= number /\ number <= 10
                 THEN [x |-> 10 * col_index - 45, z |-> 10 * row_index - 45]
                 ELSE NoValue

_parse_params(text, action) ==
    IF action = "airstrike"
    THEN IF Contains(text, <<"c", "l", "u", "s", "t", "e", "r">>)
         THEN [type |-> "cluster"]
         ELSE [type |-> "precision"]
    ELSE EmptyDict

parse(raw) ==
    IF raw = <<>> THEN NoValue
    ELSE LET text   == _normalize_phonetics(strip(lower(raw)))
             action == _parse_action(text)
         IN  IF action = None THEN NoValue
             ELSE [action    |-> action,
                   targets   |-> _parse_targets(text),
                   gridCoord |-> _parse_grid(text),
                   params    |-> _parse_params(text, action)]

\* ---------------------------------------------------------- DialogueManager

\* responses, the categories generate_response can draw from; a template is
\* the sequence of its literal parts and placeholders
responses ==
    [move       |-> << <<"Copy, moving to position.">>,
                       <<"Roger, advancing now.">>,
                       <<"Moving.">>,
                       <<"Copy that, relocating.">>,
                       <<"On the move.">>,
                       <<"Moving to grid.">> >>,
     hold       |-> << <<"Roger, holding position.">>,
                       <<"Copy, holding.">>,
                       <<"Staying put.">>,
                       <<"Position held.">>,
                       <<"Not moving.">> >>,
     engage     |-> << <<"Copy, engaging targets.">>,
                       <<"Weapons free.">>,
                       <<"Engaging.">>,
                       <<"Opening fire.">>,
                       <<"Contact, engaging.">> >>,
     cease_fire |-> << <<"Copy, holding fire.">>,
                       <<"Weapons hold.">>,
                       <<"Ceasing fire.">>,
                       <<"Roger, holding.">> >>,
     airstrike  |-> << <<"Airstrike inbound. Impact in ", "{delay}", " seconds.">>,
                       <<"Copy, calling in air support. ", "{delay}", " seconds to impact.">>,
                       <<"Ordnance on the way. Danger close in ", "{delay}", ".">> >>,
     clarify    |-> << <<"Say again?">>,
                       <<"Did not copy.">>,
                       <<"Repeat command.">>,
                       <<"Say again, over.">> >>]

\* params.get('delay', 3)
DefaultDelay == 3

\* template.format as it would be if it left the placeholder as written
RECURSIVE format_unfilled(_, _)
format_unfilled(template, delay) ==
    IF template = <<>> THEN ""
    ELSE Head(template) \o format_unfilled(Tail(template), delay)

\* template.format(delay=delay); a template without placeholders is its text
RECURSIVE format(_, _)
format(template, delay) ==
    IF template = <<>> THEN ""
    ELSE (IF Head(template) = "{delay}" THEN ToString(delay) ELSE Head(template))
         \o format(Tail(template), delay)

\* a template as written, placeholders included
RECURSIVE literal(_)
literal(template) ==
    IF template = <<>> THEN "" ELSE Head(template) \o literal(Tail(template))

\* random.choice(self.responses[category]): every template can be drawn
_get_random_response(category) ==
    IF category \in DOMAIN responses
    THEN {literal(responses[category][n]) : n \in 1..Len(responses[category])}
    ELSE {"Copy."}

\* the responses generate_response can return for a command
generate_response(command) ==
    IF command.action \notin DOMAIN responses THEN _get_random_response("clarify")
    ELSE IF command.action = "airstrike"
         THEN LET params == IF "params" \in DOMAIN command
                            THEN command.params ELSE EmptyDict
                  delay == IF "delay" \in DOMAIN params
                           THEN params.delay ELSE DefaultDelay
              IN  {format(responses.airstrike[n], delay) : n \in 1..Len(responses.airstrike)}
         ELSE _get_random_response(command.action)

\* ------------------------------------------------------- LLMDialogueManager

\* self.max_context_length
max_context_length == 10

\* an entry of self.context
ContextEntry(role, content) == [role |-> role, content |-> content]

\* `if len(self.context) > self.max_context_length:
\*      self.context = self.context[-self.max_context_length:]`
trim(window) ==
    IF Len(window) > max_context_length
    THEN SubSeq(window, Len(window) - max_context_length + 1, Len(window))
    ELSE window

\* self.context when generate_dynamic_response returns with the LLM enabled:
\* the user entry is appended, the window trimmed, the response appended
generate_dynamic_response_context(window, situation) ==
    Append(trim(Append(window, ContextEntry("user", situation))),
           ContextEntry("assistant", "Copy that."))

\* ------------------------------------------------------------------ bounds

\* messages the clients send, over all connections
MaxMsgs == 2

\* the connections the websocket server accepts
Sessions == {"c1", "c2"}

\* the texts a client types and the transcription model returns
Spell ==
    "" :> <<>> @@
    "xyz nonsense" :> <<"x", "y", "z", " ", "n", "o", "n", "s", "e", "n", "s", "e">> @@
    "alpha-1 hold position" :> <<"a", "l", "p", "h", "a", "-", "1", " ", "h", "o", "l", "d", " ", "p", "o", "s", "i", "t", "i", "o", "n">>

Utterances == DOMAIN Spell

\* CommandParser.parse on each of them
Parse == [u \in Utterances |-> parse(Spell[u])]

\* the 'text' of a tts_request
TtsTexts == {"", "Copy"}

\* what a client can put on the wire: text that is no JSON, JSON that is no
\* object, and objects by their 'type'
Messages ==
    {[type |-> t, arg |-> None] : t \in {"#invalid_json", "#not_an_object", "bogus", "pong"}}
    \cup {[type |-> "audio", arg |-> b] : b \in {"base64", "invalid_base64"}}
    \cup {[type |-> "text_command", arg |-> u] : u \in Utterances}
    \cup {[type |-> "tts_request", arg |-> t] : t \in TtsTexts}

\* the commands handed to DialogueManager.generate_response: every action of
\* the parser and one it does not know, with the params the parser builds,
\* with a delay, and without params
Delays == {0, 5}

Commands ==
    {[action |-> a, params |-> p] :
        a \in {"move", "hold", "engage", "cease_fire", "airstrike", "retreat"},
        p \in {EmptyDict, [type |-> "precision"]}}
    \cup {[action |-> "airstrike", params |-> [type |-> "cluster", delay |-> d]] : d \in Delays}
    \cup {[action |-> "airstrike", params |-> [delay |-> d]] : d \in Delays}
    \cup {[action |-> "airstrike"]}

\* the situations handed to LLMDialogueManager.generate_dynamic_response
Situations == {"contact north", "status"}

\* the lines of common_lines a preload goes through
MaxLines == 3

\* VoiceLineCache.common_lines
common_lines ==
    <<<<"C", "o", "p", "y", ".">>,
      <<"R", "o", "g", "e", "r", ".">>,
      <<"C", "o", "p", "y", " ", "t", "h", "a", "t", ".">>,
      <<"M", "o", "v", "i", "n", "g", ".">>,
      <<"M", "o", "v", "i", "n", "g", " ", "t", "o", " ", "p", "o", "s", "i", "t", "i", "o", "n", ".">>,
      <<"H", "o", "l", "d", "i", "n", "g", " ", "p", "o", "s", "i", "t", "i", "o", "n", ".">>,
      <<"E", "n", "g", "a", "g", "i", "n", "g", ".">>,
      <<"T", "a", "r", "g", "e", "t", "s", " ", "e", "n", "g", "a", "g", "e", "d", ".">>,
      <<"S", "a", "y", " ", "a", "g", "a", "i", "n", "?">>,
      <<"D", "i", "d", " ", "n", "o", "t", " ", "c", "o", "p", "y", ".">>,
      <<"N", "e", "g", "a", "t", "i", "v", "e", ".">>,
      <<"A", "f", "f", "i", "r", "m", "a", "t", "i", "v", "e", ".">>,
      <<"T", "a", "n", "g", "o", " ", "d", "o", "w", "n", ".">>,
      <<"C", "o", "n", "t", "a", "c", "t", "!">>,
      <<"T", "a", "k", "i", "n", "g", " ", "f", "i", "r", "e", "!">>,
      <<"M", "a", "n", " ", "d", "o", "w", "n", "!">>,
      <<"A", "i", "r", "s", "t", "r", "i", "k", "e", " ", "i", "n", "b", "o", "u", "n", "d", ".">>,
      <<"I", "m", "p", "a", "c", "t", "!">>>>

\* the lines preload synthesizes
Lines == SubSeq(common_lines, 1, MaxLines)

\* the speakers of TTSEngine.voice_settings a caller asks for
Speakers == {"alpha", "command"}

\* a phrase that is not in common_lines
Unlisted == <<"F", "a", "l", "l", " ", "b", "a", "c", "k", ".">>

\* the first line of common_lines in upper case
Shouted == <<"C", "O", "P", "Y", ".">>

\* the texts asked of the cache: the first line as written, in upper and in
\* lower case, the last line of a preload, and the phrase that is on no list
LookupTexts == {Lines[1], Shouted, lower(Lines[1]), Lines[Len(Lines)], Unlisted}

\* the outputs an engine can give for one text and one speaker
Takes == {1, 2}

\* words an utterance handed to the parser has, at most
MaxWords == 2

\* the largest number a grid reference names
MaxNumber == 11

\* the phrases utterances are made of, each with its characters
Lexicon ==
    "move" :> <<"m", "o", "v", "e">> @@
    "move to" :> <<"m", "o", "v", "e", " ", "t", "o">> @@
    "hold" :> <<"h", "o", "l", "d">> @@
    "hold position" :> <<"h", "o", "l", "d", " ", "p", "o", "s", "i", "t", "i", "o", "n">> @@
    "engage" :> <<"e", "n", "g", "a", "g", "e">> @@
    "cease fire" :> <<"c", "e", "a", "s", "e", " ", "f", "i", "r", "e">> @@
    "Cease fire" :> <<"C", "e", "a", "s", "e", " ", "f", "i", "r", "e">> @@
    "hold fire" :> <<"h", "o", "l", "d", " ", "f", "i", "r", "e">> @@
    "stop firing" :> <<"s", "t", "o", "p", " ", "f", "i", "r", "i", "n", "g">> @@
    "weapons hold" :> <<"w", "e", "a", "p", "o", "n", "s", " ", "h", "o", "l", "d">> @@
    "airstrike" :> <<"a", "i", "r", "s", "t", "r", "i", "k", "e">> @@
    "xyz nonsense" :> <<"x", "y", "z", " ", "n", "o", "n", "s", "e", "n", "s", "e">> @@
    "alpha team" :> <<"a", "l", "p", "h", "a", " ", "t", "e", "a", "m">> @@
    "alpha 1" :> <<"a", "l", "p", "h", "a", " ", "1">> @@
    "alpha-1" :> <<"a", "l", "p", "h", "a", "-", "1">> @@
    "alpha-2" :> <<"a", "l", "p", "h", "a", "-", "2">> @@
    "alpha-3" :> <<"a", "l", "p", "h", "a", "-", "3">> @@
    "alpha-4" :> <<"a", "l", "p", "h", "a", "-", "4">> @@
    "everyone" :> <<"e", "v", "e", "r", "y", "o", "n", "e">> @@
    "five" :> <<"f", "i", "v", "e">> @@
    "move to alpha five" :> <<"m", "o", "v", "e", " ", "t", "o", " ", "a", "l", "p", "h", "a", " ", "f", "i", "v", "e">> @@
    "alphabet" :> <<"a", "l", "p", "h", "a", "b", "e", "t">>

Vocabulary == DOMAIN Lexicon

\* the phrases of an utterance, one space between them
RECURSIVE Join(_)
Join(words) ==
    IF words = <<>> THEN <<>>
    ELSE IF Len(words) = 1 THEN Lexicon[words[1]]
         ELSE Lexicon[words[1]] \o <<" ">> \o Join(Tail(words))

\* str(n)
RECURSIVE Digits(_)
Digits(n) ==
    LET DigitChar == <<"0", "1", "2", "3", "4", "5", "6", "7", "8", "9">>
    IN  IF n < 10 THEN <<DigitChar[n + 1]>>
        ELSE Digits(n \div 10) \o <<DigitChar[(n % 10) + 1]>>

GridLetters == <<"a", "b", "c", "d", "e", "f", "g", "h", "i", "j">>

\* the ways the parser's comment says a cell is named: "grid C3", "A5", "charlie 7"
GridForms == {"grid c5", "c5", "charlie 5"}

\* a grid reference <<form, column, number>> as it is said
GridText(g) ==
    CASE g[1] = "grid c5"   -> <<"g", "r", "i", "d", " ", GridLetters[g[2]]>> \o Digits(g[3])
      [] g[1] = "c5"        -> <<GridLetters[g[2]]>> \o Digits(g[3])
      [] g[1] = "charlie 5" -> phonetic_to_letter[g[2]][1] \o <<" ">> \o Digits(g[3])

\* the text of an utterance: its phrases, then its grid reference if it has one
Text(u) ==
    IF u.grid = <<>> THEN Join(u.words)
    ELSE IF u.words = <<>> THEN GridText(u.grid)
         ELSE Join(u.words) \o <<" ">> \o GridText(u.grid)

\* utterances of up to MaxWords phrases
WordInputs == UNION {[1..k -> Vocabulary] : k \in 0..MaxWords}

\* what is said before a grid reference
GridPrefixes == {<<"move to">>, <<"alpha team", "move to">>, <<"alpha 1", "move to">>}

GridRefs == GridForms \X (1..10) \X (0..MaxNumber)

\* the texts handed to CommandParser.parse
Inputs ==
    {[words |-> w, grid |-> <<>>] : w \in WordInputs}
    \cup {[words |-> w, grid |-> g] : w \in GridPrefixes, g \in GridRefs}

\* no text handed to the parser
NoUtterance == [words |-> <<>>, grid |-> <<>>]

\* ------------------------------------------------------------------- state

VARIABLES
    server,            \* the class that serves: "OverwatchServer" or "SimpleOverwatchServer"
    service,             \* how it is served: "direct" (handle_client served on the object),
                       \* or through start(): "start", then "serving" or "aborted"
    phase,             \* "constructed", "initialized", "init_failed"
    stt,               \* self.stt: None, "uninitialized" or "initialized"
    command_parser,    \* self.command_parser is set
    tts,               \* self.tts is set
    tts_type,          \* self.tts.tts_type: None until TTSEngine.initialize has run
    dialogue,          \* self.dialogue is set
    components_ready,  \* self.components_ready
    clients,           \* self.clients
    transport,         \* per connection: "none", "open", "closed"
    inbox,             \* per connection: messages received by the transport, not yet iterated
    pc,                \* per connection: where its handle_client task stands
    cur,               \* per connection: the locals of the envelope being processed
    log,               \* per connection: the inbound envelope in processing, or the last one processed
    sent,              \* per connection: the envelopes sent for it, in order
    arrived,           \* per connection: messages the client has sent so far
    heartbeat,         \* the heartbeat task: its position and the sends of its round
    utterance,         \* the text handed to CommandParser.parse
    result,            \* <<>> until parse has returned, then <<what it returned>>
    said,              \* the last call on the dialogue manager: its input and what it returned
    context,           \* LLMDialogueManager.context
    llm_enabled,       \* LLMDialogueManager.llm_enabled
    cache,             \* VoiceLineCache.cache
    preload,           \* the preload task: where it stands in common_lines
    lookup             \* the last get or get_or_generate: its arguments and what it returned

vars == <<server, service, phase, stt, command_parser, tts, tts_type, dialogue,
          components_ready, clients, transport, inbox, pc, cur, log, sent, arrived,
          heartbeat, utterance, result, said, context, llm_enabled, cache, preload,
          lookup>>

components == <<phase, stt, command_parser, tts, tts_type, dialogue, components_ready>>

\* the objects used on their own, outside a server
library == <<said, context, llm_enabled, cache, preload, lookup>>

\* what no step of a connection's task writes
outside == <<server, service, heartbeat, utterance, result, library>>

SendLabels == {"send_error", "send_transcription", "send_command", "send_dialogue",
               "send_clarification", "send_voice"}

NoCur == [text |-> None, command |-> NoValue, response |-> None, audio |-> None, error |-> None]

\* a continuation: the next await of the task and its locals
To(label, c) == [pc |-> label, cur |-> c]
\* process_message returns
Return == To("idle", NoCur)
\* an exception leaves process_message
Raise == To("raise", NoCur)
\* await self.send_error(websocket, message)
send_error(message) == To("send_error", [NoCur EXCEPT !.error = message])

\* the envelopes a send label can put on the wire: one, but for the dialogue
\* response, which self.dialogue.generate_response draws at random
Envelopes(label, c) ==
    CASE label = "send_error"         -> {[type |-> "error", body |-> c.error]}
      [] label = "send_transcription" -> {[type |-> "transcription", body |-> c.text]}
      [] label = "send_command"       -> {[type |-> "command", body |-> c.command]}
      [] label = "send_dialogue"      ->
            {[type |-> "dialogue", body |-> r] : r \in generate_response(c.command)}
      [] label = "send_clarification" -> {[type |-> "dialogue", body |-> c.response]}
      [] label = "send_voice"         -> {[type |-> "voice", body |-> c.audio]}

\* str(e) of the AttributeError raised by a call on a component that is None
NoneTypeError(attr) == "'NoneType' object has no attribute '" \o attr \o "'"

\* --------------------------------------------------------- OverwatchServer

\* generate_and_send_tts, up to the await of synthesize
generate_and_send_tts(text) ==
    IF ~tts THEN {Return}
    ELSE {To("synthesize", [NoCur EXCEPT !.response = text])}

\* generate_and_send_tts as it would be if it reported a synthesis without audio
generate_and_send_tts_synthesized_reporting(audio_bytes) ==
    IF audio_bytes # None
    THEN {To("send_voice", [NoCur EXCEPT !.audio = audio_bytes])}
    ELSE {send_error("TTS generation failed")}

\* generate_and_send_tts, from the result of synthesize on
generate_and_send_tts_synthesized(audio_bytes) ==
    IF audio_bytes # None
    THEN {To("send_voice", [NoCur EXCEPT !.audio = audio_bytes])}
    ELSE {Return}

\* handle_audio as it would be without the components_ready check
handle_audio_unchecked(m) ==
    IF m.arg = "invalid_base64" \/ stt = None
    THEN {send_error("Audio processing failed")}
    ELSE {To("transcribe", NoCur)}

\* handle_audio, up to the await of transcribe
handle_audio(m) ==
    IF ~components_ready THEN {send_error("Server not ready")}
    ELSE IF m.arg = "invalid_base64" \/ stt = None
         THEN {send_error("Audio processing failed")}
         ELSE {To("transcribe", NoCur)}

\* handle_audio as it would be if a falsy transcription made it return silently
handle_audio_transcribed_silent(transcription) ==
    IF transcription \in {None, ""}
    THEN {Return}
    ELSE {To("send_transcription", [NoCur EXCEPT !.text = transcription])}

\* handle_audio, from the result of transcribe on
handle_audio_transcribed(transcription) ==
    IF transcription \in {None, ""}
    THEN {send_error("Could not transcribe audio")}
    ELSE {To("send_transcription", [NoCur EXCEPT !.text = transcription])}

\* handle_audio as it would be without the clarification branch
handle_audio_parse_silent(c) ==
    IF ~command_parser THEN {send_error("Audio processing failed")}
    ELSE IF Parse[c.text] # NoValue
         THEN {To("send_command", [NoCur EXCEPT !.command = Parse[c.text]])}
         ELSE {Return}

\* handle_audio, after the transcription envelope: parse, then command or clarification
handle_audio_parse(c) ==
    IF ~command_parser THEN {send_error("Audio processing failed")}
    ELSE IF Parse[c.text] # NoValue
         THEN {To("send_command", [NoCur EXCEPT !.command = Parse[c.text]])}
         ELSE {To("send_clarification", [NoCur EXCEPT !.response = "Say again? Did not copy."])}

\* handle_audio, after the command envelope: the dialogue response
handle_audio_respond(c) ==
    IF ~dialogue THEN {send_error("Audio processing failed")}
    ELSE {To("send_dialogue", [NoCur EXCEPT !.command = c.command])}

\* handle_audio as it would be if the dialogue response went out before the command
handle_audio_sent_dialogue_first(label, c, env) ==
    CASE label = "send_transcription" ->
            IF Parse[c.text] # NoValue
            THEN {To("send_dialogue", [NoCur EXCEPT !.command = Parse[c.text]])}
            ELSE {To("send_clarification", [NoCur EXCEPT !.response = "Say again? Did not copy."])}
      [] label = "send_dialogue"      ->
            {To("send_command", [NoCur EXCEPT !.command = c.command, !.response = env.body])}
      [] label = "send_command"       -> generate_and_send_tts(c.response)
      [] OTHER                        -> {Return}

\* handle_audio, after the envelope env sent at `label`
handle_audio_sent(label, c, env) ==
    CASE label = "send_transcription" -> handle_audio_parse(c)
      [] label = "send_command"       -> handle_audio_respond(c)
      [] label = "send_dialogue"      -> generate_and_send_tts(env.body)
      [] OTHER                        -> {Return}

\* handle_text_command, up to its first send
handle_text_command(m) ==
    IF m.arg = "" THEN {Return}
    ELSE IF ~command_parser THEN {send_error(NoneTypeError("parse"))}
    ELSE IF Parse[m.arg] # NoValue
         THEN {To("send_command", [NoCur EXCEPT !.command = Parse[m.arg]])}
         ELSE {Return}

\* handle_text_command, after the envelope sent at `label`
handle_text_command_sent(label, c) ==
    CASE label = "send_command" ->
            IF ~dialogue THEN {send_error(NoneTypeError("generate_response"))}
            ELSE {To("send_dialogue", [NoCur EXCEPT !.command = c.command])}
      [] OTHER -> {Return}

\* handle_tts_request as it would be without the `if text`
handle_tts_request_unchecked(m) == generate_and_send_tts(m.arg)

\* handle_tts_request
handle_tts_request(m) ==
    IF m.arg # "" THEN generate_and_send_tts(m.arg) ELSE {Return}

\* process_message as it would be without its `except Exception`
process_message_uncaught(m) ==
    CASE m.type = "#invalid_json"  -> {send_error("Invalid message format")}
      [] m.type = "#not_an_object" -> {Raise}
      [] m.type = "audio"          -> handle_audio(m)
      [] m.type = "text_command"   -> handle_text_command(m)
      [] m.type = "tts_request"    -> handle_tts_request(m)
      [] m.type = "pong"           -> {Return}
      [] OTHER                     -> {Return}

\* process_message, up to the first await
process_message(m) ==
    CASE m.type = "#invalid_json"  -> {send_error("Invalid message format")}
      [] m.type = "#not_an_object" -> {send_error("'list' object has no attribute 'get'")}
      [] m.type = "audio"          -> handle_audio(m)
      [] m.type = "text_command"   -> handle_text_command(m)
      [] m.type = "tts_request"    -> handle_tts_request(m)
      [] m.type = "pong"           -> {Return}
      [] OTHER                     -> {Return}

\* process_message, after the envelope env sent at `label` for message m
process_message_sent(m, label, c, env) ==
    CASE m.type = "audio"        -> handle_audio_sent(label, c, env)
      [] m.type = "text_command" -> handle_text_command_sent(label, c)
      [] OTHER                   -> {Return}

\* the same as it would be if generate_and_send_tts had no try/except of its own
process_message_send_failed_unguarded(label) == {Raise}

\* a send on a closed connection raises ConnectionClosed: generate_and_send_tts
\* logs it; anywhere else the handlers reach send_error, which raises again,
\* out of process_message
process_message_send_failed(label) ==
    IF label = "send_voice" THEN {Return} ELSE {Raise}

\* --------------------------------------------------- SimpleOverwatchServer

\* handle_audio, up to the await of transcribe
simple_handle_audio(m) ==
    IF m.arg = "invalid_base64" \/ stt = None THEN {Return}
    ELSE {To("transcribe", NoCur)}

\* handle_audio, from the result of transcribe on
simple_handle_audio_transcribed(text) ==
    IF text \in {None, ""} THEN {Return}
    ELSE {To("send_transcription", [NoCur EXCEPT !.text = text])}

\* handle_audio, after the envelope sent at `label`
simple_handle_audio_sent(label, c) ==
    CASE label = "send_transcription" ->
            IF command_parser /\ Parse[c.text] # NoValue
            THEN {To("send_command", [NoCur EXCEPT !.command = Parse[c.text]])}
            ELSE {Return}
      [] label = "send_command" ->
            IF ~dialogue THEN {Return}
            ELSE {To("send_dialogue", [NoCur EXCEPT !.command = c.command])}
      [] OTHER -> {Return}

\* handle_text_command, up to its first send
simple_handle_text_command(m) ==
    IF m.arg = "" \/ ~command_parser THEN {Return}
    ELSE IF Parse[m.arg] # NoValue
         THEN {To("send_command", [NoCur EXCEPT !.command = Parse[m.arg]])}
         ELSE {Return}

\* handle_text_command, after the envelope sent at `label`
simple_handle_text_command_sent(label, c) ==
    CASE label = "send_command" ->
            IF ~dialogue THEN {Return}
            ELSE {To("send_dialogue", [NoCur EXCEPT !.command = c.command])}
      [] OTHER -> {Return}

\* handle_tts_request, up to the await of synthesize
simple_handle_tts_request(m) ==
    IF m.arg = "" \/ ~tts THEN {Return}
    ELSE {To("synthesize", [NoCur EXCEPT !.response = m.arg])}

\* handle_tts_request, from the result of synthesize on
simple_handle_tts_request_synthesized(audio) ==
    IF audio # None THEN {To("send_voice", [NoCur EXCEPT !.audio = audio])} ELSE {Return}

\* process_message, up to the first await: every exception is logged only
simple_process_message(m) ==
    CASE m.type = "audio"        -> simple_handle_audio(m)
      [] m.type = "text_command" -> simple_handle_text_command(m)
      [] m.type = "tts_request"  -> simple_handle_tts_request(m)
      [] OTHER                   -> {Return}

\* process_message, after the envelope sent at `label` for message m
simple_process_message_sent(m, label, c) ==
    CASE m.type = "audio"        -> simple_handle_audio_sent(label, c)
      [] m.type = "text_command" -> simple_handle_text_command_sent(label, c)
      [] OTHER                   -> {Return}

\* a failed send is caught in handle_audio or in process_message and logged
simple_process_message_send_failed(label) == {Return}

\* ------------------------------------------------- the serving class chosen

Dispatch(m) ==
    IF server = "OverwatchServer" THEN process_message(m) ELSE simple_process_message(m)

Transcribed(transcription) ==
    IF server = "OverwatchServer"
    THEN handle_audio_transcribed(transcription)
    ELSE simple_handle_audio_transcribed(transcription)

Synthesized(audio) ==
    IF server = "OverwatchServer"
    THEN generate_and_send_tts_synthesized(audio)
    ELSE simple_handle_tts_request_synthesized(audio)

Sent(m, label, c, env) ==
    IF server = "OverwatchServer"
    THEN process_message_sent(m, label, c, env)
    ELSE simple_process_message_sent(m, label, c)

SendFailed(label) ==
    IF server = "OverwatchServer"
    THEN process_message_send_failed(label)
    ELSE simple_process_message_send_failed(label)

\* ------------------------------------------------------------ collaborators

\* WhisperSTT.transcribe: None when not initialized or on failure, else the stripped text
TranscribeResults ==
    IF stt = "initialized" THEN {None} \cup Utterances ELSE {None}

\* TTSEngine.synthesize of a non-empty text: audio bytes, or None when the
\* engine fails; _synthesize_mock computes its bytes and does not fail
SynthesizeResults == IF tts_type = "mock" THEN {"audio"} ELSE {"audio", None}

\* TTSEngine.synthesize: None for an empty text
synthesize(text) == IF text = "" THEN {None} ELSE SynthesizeResults

\* ------------------------------------------------------------------ actions

\* no envelope taken yet
NoLog == [seq |-> 0, msg |-> [type |-> None, arg |-> None], ready |-> FALSE,
          loaded |-> FALSE, stt |-> "-", tts |-> "-", done |-> FALSE]

RECURSIVE Sum(_, _)
Sum(f, S) == IF S = {} THEN 0 ELSE LET x == CHOOSE x \in S : TRUE IN f[x] + Sum(f, S \ {x})

\* the heartbeat task before start() creates it
NoHeartbeat == [state |-> "none", targets |-> {}, pending |-> {}, pinged |-> {}]

\* no call on the dialogue manager yet
NoCall == [op |-> None, input |-> None, response |-> None]

\* preload has not been called
NoPreload == [state |-> "idle", line |-> 0, failed |-> {}]

\* no get and no get_or_generate yet
NoLookup == [op |-> None, state |-> "returned", text |-> <<>>, speaker |-> None,
             cached |-> NoValue, result |-> NoValue]

InitState ==
    /\ phase = "constructed"
    /\ stt = None
    /\ command_parser = FALSE
    /\ tts = FALSE
    /\ tts_type = None
    /\ dialogue = FALSE
    /\ components_ready = FALSE
    /\ clients = {}
    /\ transport = [s \in Sessions |-> "none"]
    /\ inbox = [s \in Sessions |-> <<>>]
    /\ pc = [s \in Sessions |-> "none"]
    /\ cur = [s \in Sessions |-> NoCur]
    /\ log = [s \in Sessions |-> NoLog]
    /\ sent = [s \in Sessions |-> <<>>]
    /\ arrived = [s \in Sessions |-> 0]
    /\ heartbeat = NoHeartbeat
    /\ said = NoCall
    /\ context = <<>>
    /\ llm_enabled = FALSE
    /\ cache = EmptyDict
    /\ preload = NoPreload
    /\ lookup = NoLookup

\* no text is being parsed outside the handlers
NoParse == utterance = NoUtterance /\ result = <<>>

\* OverwatchServer(), its handle_client served on the object
Init == server = "OverwatchServer" /\ service = "direct" /\ InitState /\ NoParse

\* SimpleOverwatchServer()
InitSimple == server = "SimpleOverwatchServer" /\ service = "direct" /\ InitState /\ NoParse

\* either class
InitAny == server \in {"OverwatchServer", "SimpleOverwatchServer"} /\ service = "direct"
           /\ InitState /\ NoParse

\* OverwatchServer(), then start() is called
InitStart == server = "OverwatchServer" /\ service = "start" /\ InitState /\ NoParse

\* what TTSEngine.initialize leaves in tts_type: the engine it could import, or
\* 'mock' when none is available and when the initialization raised. 'edge_tts'
\* is to the servers what 'pyttsx3' is, an engine whose synthesis can fail, and
\* stands with it
TtsTypes == {"pyttsx3", "mock"}

\* initialize_components as it would be without `self.components_ready = True`
load_components_unready ==
    /\ phase = "constructed"
    /\ phase' = "initialized"
    /\ stt' = "initialized"
    /\ command_parser' = TRUE
    /\ tts' = TRUE
    /\ tts_type' \in TtsTypes
    /\ dialogue' = TRUE
    /\ components_ready' = FALSE
    /\ UNCHANGED <<server, utterance, result, library, clients, transport, inbox, pc,
                   cur, log, sent, arrived>>

\* initialize_components (OverwatchServer) and initialize (SimpleOverwatchServer)
\* run to their end: neither collaborator's initialize suspends
load_components ==
    /\ phase = "constructed"
    /\ phase' = "initialized"
    /\ stt' = "initialized"
    /\ command_parser' = TRUE
    /\ tts' = TRUE
    /\ tts_type' \in TtsTypes
    /\ dialogue' = TRUE
    /\ components_ready' = (server = "OverwatchServer")
    /\ UNCHANGED <<server, utterance, result, library, clients, transport, inbox, pc,
                   cur, log, sent, arrived>>

\* WhisperSTT.initialize raises: self.stt is assigned, nothing after it is
fail_components ==
    /\ phase = "constructed"
    /\ phase' = "init_failed"
    /\ stt' = "uninitialized"
    /\ UNCHANGED <<server, utterance, result, library, command_parser, tts, tts_type,
                   dialogue, components_ready, clients, transport, inbox, pc, cur, log,
                   sent, arrived>>

\* initialize_components / initialize, called on the object
InitializeOk == service = "direct" /\ load_components /\ UNCHANGED <<service, heartbeat>>

InitializeFail == service = "direct" /\ fail_components /\ UNCHANGED <<service, heartbeat>>

\* start(): initialize_components returns, the heartbeat task is created and
\* the websocket server serves handle_client
StartOk ==
    /\ service = "start"
    /\ load_components
    /\ heartbeat' = [NoHeartbeat EXCEPT !.state = "sleeping"]
    /\ service' = "serving"

\* start(): initialize_components raises again what WhisperSTT.initialize
\* raised, and start() ends there
StartFail ==
    /\ service = "start"
    /\ fail_components
    /\ service' = "aborted"
    /\ UNCHANGED heartbeat

\* handle_client starts for a new connection. It is the handler whoever serves
\* the server calls: start() and run() serve it once initialization has
\* returned, the handler itself asks for no phase
Accept(s) ==
    /\ service \in {"direct", "serving"}
    /\ transport[s] = "none"
    /\ transport' = [transport EXCEPT ![s] = "open"]
    /\ clients' = clients \cup {s}
    /\ pc' = [pc EXCEPT ![s] = "idle"]
    /\ UNCHANGED <<outside, components, inbox, cur, log, sent, arrived>>

\* the client sends a message; the transport queues it. The queue holds the
\* messages by their arrival number; what a message says is read when the
\* iteration yields it
Arrive(s) ==
    /\ transport[s] = "open"
    /\ Sum(arrived, Sessions) < MaxMsgs
    /\ arrived' = [arrived EXCEPT ![s] = @ + 1]
    /\ inbox' = [inbox EXCEPT ![s] = Append(@, arrived[s] + 1)]
    /\ UNCHANGED <<outside, components, clients, transport, pc, cur, log, sent>>

\* the connection closes
Disconnect(s) ==
    /\ transport[s] = "open"
    /\ transport' = [transport EXCEPT ![s] = "closed"]
    /\ UNCHANGED <<outside, components, clients, inbox, pc, cur, log, sent, arrived>>

\* `async for message in websocket`: the loop asks for a message only when
\* process_message has returned
CanReceive(s) == pc[s] = "idle"

\* the iteration as it would be if it yielded the newest message first
DequeueNewest(queue) ==
    [item |-> queue[Len(queue)], rest |-> SubSeq(queue, 1, Len(queue) - 1)]

\* the message the iteration yields, and the queue it leaves
Dequeue(queue) == [item |-> Head(queue), rest |-> Tail(queue)]

\* self.clients.discard(websocket) as it would be if it removed nothing
discard_nothing(registry, s) == registry

\* self.clients.discard(websocket)
discard(registry, s) == registry \ {s}

\* the task of connection s moves to continuation n, having sent the envelopes
\* snt for the envelope recorded as lg. An exception that leaves
\* process_message ends handle_client: finally, self.clients.discard; the
\* task's record and the messages not iterated go with it
Advance(s, n, lg, snt) ==
    /\ pc' = [pc EXCEPT ![s] = IF n.pc = "raise" THEN "closed" ELSE n.pc]
    /\ cur' = [cur EXCEPT ![s] = n.cur]
    /\ clients' = IF n.pc = "raise" THEN discard(clients, s) ELSE clients
    /\ log' = [log EXCEPT ![s] =
                  IF n.pc = "raise" THEN NoLog ELSE [lg EXCEPT !.done = (n.pc = "idle")]]
    /\ sent' = [sent EXCEPT ![s] = IF n.pc = "raise" THEN <<>> ELSE snt]

\* handle_client takes the next message and process_message runs to its first await
Receive(s) ==
    /\ CanReceive(s)
    /\ inbox[s] # <<>>
    /\ \E m \in Messages :
          LET d == Dequeue(inbox[s])
              lg == [seq   |-> d.item,
                     msg   |-> m,
                     ready |-> components_ready,
                     loaded |-> dialogue,
                     stt   |-> "-",
                     tts   |-> "-",
                     done  |-> FALSE]
          IN  \E n \in Dispatch(m) :
                 /\ Advance(s, n, lg, <<>>)
                 /\ inbox' = [inbox EXCEPT ![s] = IF n.pc = "raise" THEN <<>> ELSE d.rest]
    /\ UNCHANGED <<outside, components, transport, arrived>>

\* self.stt.transcribe returns
Transcribe(s) ==
    /\ pc[s] = "transcribe"
    /\ \E r \in TranscribeResults :
          \E n \in Transcribed(r) : Advance(s, n, [log[s] EXCEPT !.stt = r], sent[s])
    /\ UNCHANGED <<outside, components, transport, inbox, arrived>>

\* self.tts.synthesize returns
Synthesize(s) ==
    /\ pc[s] = "synthesize"
    /\ \E a \in synthesize(cur[s].response) :
          \E n \in Synthesized(a) : Advance(s, n, [log[s] EXCEPT !.tts = a], sent[s])
    /\ UNCHANGED <<outside, components, transport, inbox, arrived>>

\* websocket.send: the envelope goes out, or the closed connection raises
Send(s) ==
    /\ pc[s] \in SendLabels
    /\ \E n \in IF transport[s] = "open"
                THEN UNION {{[next |-> x, sent |-> Append(sent[s], env)] :
                                x \in Sent(log[s].msg, pc[s], cur[s], env)} :
                            env \in Envelopes(pc[s], cur[s])}
                ELSE {[next |-> x, sent |-> sent[s]] : x \in SendFailed(pc[s])} :
          /\ Advance(s, n.next, log[s], n.sent)
          /\ inbox' = [inbox EXCEPT ![s] = IF n.next.pc = "raise" THEN <<>> ELSE @]
    /\ UNCHANGED <<outside, components, transport, arrived>>

\* the iteration ends on the closed connection; finally: self.clients.discard
HandlerEnd(s) ==
    /\ pc[s] = "idle"
    /\ transport[s] = "closed"
    /\ pc' = [pc EXCEPT ![s] = "closed"]
    /\ clients' = discard(clients, s)
    /\ log' = [log EXCEPT ![s] = NoLog]
    /\ sent' = [sent EXCEPT ![s] = <<>>]
    /\ inbox' = [inbox EXCEPT ![s] = <<>>]
    /\ UNCHANGED <<outside, components, transport, cur, arrived>>

\* ---------------------------------------------------------------- heartbeat

\* the round as it would be if gather raised the first exception of a send
ping_failed_raises(h, s) == [h EXCEPT !.state = "dead", !.pending = @ \ {s}]

\* a send of the round raises on a closed connection: return_exceptions=True
\* makes the exception that send's result
ping_failed(h, s) == [h EXCEPT !.pending = @ \ {s}]

\* a send of the round puts the ping on the wire
ping_sent(h, s) == [h EXCEPT !.pending = @ \ {s}, !.pinged = @ \cup {s}]

\* the sleep ends with connections registered: gather is given one send per
\* client of self.clients
HeartbeatRound ==
    /\ heartbeat.state = "sleeping"
    /\ clients # {}
    /\ heartbeat' = [state |-> "gathering", targets |-> clients, pending |-> clients,
                     pinged |-> {}]
    /\ UNCHANGED <<server, service, utterance, result, library, components, clients,
                   transport, inbox, pc, cur, log, sent, arrived>>

\* one of the gathered sends runs
Ping(s) ==
    /\ heartbeat.state = "gathering"
    /\ s \in heartbeat.pending
    /\ heartbeat' = IF transport[s] = "open"
                    THEN ping_sent(heartbeat, s)
                    ELSE ping_failed(heartbeat, s)
    /\ UNCHANGED <<server, service, utterance, result, library, components, clients,
                   transport, inbox, pc, cur, log, sent, arrived>>

\* gather returns and the loop sleeps again
RoundEnd ==
    /\ heartbeat.state = "gathering"
    /\ heartbeat.pending = {}
    /\ heartbeat' = [NoHeartbeat EXCEPT !.state = "sleeping"]
    /\ UNCHANGED <<server, service, utterance, result, library, components, clients,
                   transport, inbox, pc, cur, log, sent, arrived>>

\* -------------------------------------------------------------- the parser

\* CommandParser(), and a text to parse
InitParser ==
    /\ server = "OverwatchServer"
    /\ service = "direct"
    /\ InitState
    /\ utterance \in Inputs
    /\ result = <<>>

\* self.command_parser.parse(text) returns
ParseUtterance ==
    /\ result = <<>>
    /\ result' = <<parse(Text(utterance))>>
    /\ UNCHANGED <<server, service, heartbeat, utterance, library, components, clients,
                   transport, inbox, pc, cur, log, sent, arrived>>

\* ------------------------------------------------------------ VoiceLineCache

\* the bytes _synthesize_mock returns, whatever the text and the speaker
MockAudio == [text |-> <<>>, speaker |-> "mock", take |-> 0]

\* TTSEngine.synthesize(text, speaker) for the cache: None for an empty text
\* and when the engine fails, else audio of that text in the voice of that
\* speaker; the mock engine returns its beep
VoiceAudio(text, speaker) ==
    IF text = <<>> THEN {NoValue}
    ELSE IF tts_type = "mock" THEN {MockAudio}
    ELSE {NoValue} \cup {[text |-> text, speaker |-> speaker, take |-> n] : n \in Takes}

\* store[key] = audio
put(store, key, a) ==
    [k \in DOMAIN store \cup {key} |-> IF k = key THEN a ELSE store[k]]

\* get as it would be if it looked the text up as written
get_exact(store, text) ==
    IF text \in DOMAIN store THEN store[text] ELSE NoValue

\* get: self.cache.get(text.lower())
get(store, text) ==
    IF lower(text) \in DOMAIN store THEN store[lower(text)] ELSE NoValue

\* preload, for one line: `if audio: self.cache[line.lower()] = audio`
preload_line(store, line, a) ==
    IF a # NoValue THEN put(store, lower(line), a) ELSE store

\* get_or_generate as it would be if it kept what it generated
get_or_generate_caching(store, text, a) ==
    IF a # NoValue THEN put(store, lower(text), a) ELSE store

\* self.cache when get_or_generate returns what synthesize gave it
get_or_generate_cache(store, text, a) == store

\* what the calls on a voice cache used on its own leave alone
engine_users == <<server, service, heartbeat, utterance, result, phase, stt,
                  command_parser, dialogue, components_ready, clients, transport,
                  inbox, pc, cur, log, sent, arrived, said, context, llm_enabled>>

\* VoiceLineCache(TTSEngine())
InitCache ==
    /\ server = "OverwatchServer"
    /\ service = "direct"
    /\ InitState
    /\ NoParse

\* TTSEngine.initialize, called by the owner of the engine or by the first synthesize
EngineInitialize ==
    /\ tts_type = None
    /\ tts' = TRUE
    /\ tts_type' \in TtsTypes
    /\ UNCHANGED <<engine_users, cache, preload, lookup>>

\* preload() is called: no preload is running
PreloadStart ==
    /\ preload.state # "running"
    /\ preload' = [state |-> "running", line |-> 1, failed |-> {}]
    /\ UNCHANGED <<engine_users, tts, tts_type, cache, lookup>>

\* synthesize returns for the line preload stands at
PreloadLine ==
    /\ preload.state = "running"
    /\ tts_type # None
    /\ \E a \in VoiceAudio(Lines[preload.line], "alpha") :
          /\ cache' = preload_line(cache, Lines[preload.line], a)
          /\ preload' = [state  |-> IF preload.line = Len(Lines) THEN "done" ELSE "running",
                         line   |-> IF preload.line = Len(Lines) THEN 0 ELSE preload.line + 1,
                         failed |-> IF a = NoValue
                                    THEN preload.failed \cup {preload.line}
                                    ELSE preload.failed]
    /\ UNCHANGED <<engine_users, tts, tts_type, lookup>>

\* get(text)
Get ==
    /\ lookup.state = "returned"
    /\ \E t \in LookupTexts :
          lookup' = [op |-> "get", state |-> "returned", text |-> t, speaker |-> None,
                     cached |-> get(cache, t), result |-> get(cache, t)]
    /\ UNCHANGED <<engine_users, tts, tts_type, cache, preload>>

\* get_or_generate(text, speaker), up to the await of synthesize
GetOrGenerate ==
    /\ lookup.state = "returned"
    /\ \E t \in LookupTexts, sp \in Speakers :
          lookup' = [op |-> "get_or_generate",
                     state |-> IF get(cache, t) # NoValue THEN "returned" ELSE "synthesize",
                     text |-> t, speaker |-> sp,
                     cached |-> get(cache, t), result |-> get(cache, t)]
    /\ UNCHANGED <<engine_users, tts, tts_type, cache, preload>>

\* get_or_generate, from the result of synthesize on
GetOrGenerateSynthesized ==
    /\ lookup.state = "synthesize"
    /\ tts_type # None
    /\ \E a \in VoiceAudio(lookup.text, lookup.speaker) :
          /\ lookup' = [lookup EXCEPT !.state = "returned", !.result = a]
          /\ cache' = get_or_generate_cache(cache, lookup.text, a)
    /\ UNCHANGED <<engine_users, tts, tts_type, preload>>

\* ------------------------------------------------------ the dialogue manager

\* what the calls on a dialogue manager used on its own leave alone
servers == <<server, service, heartbeat, utterance, result, components, clients,
             transport, inbox, pc, cur, log, sent, arrived>>

\* LLMDialogueManager()
InitDialogue ==
    /\ server = "OverwatchServer"
    /\ service = "direct"
    /\ InitState
    /\ NoParse

\* generate_response(command) returns
GenerateResponse ==
    /\ \E cmd \in Commands : \E r \in generate_response(cmd) :
          said' = [op |-> "generate_response", input |-> cmd, response |-> r]
    /\ UNCHANGED <<servers, context, llm_enabled, cache, preload, lookup>>

\* initialize_llm() returns
InitializeLlm ==
    /\ llm_enabled' = TRUE
    /\ UNCHANGED <<servers, said, context, cache, preload, lookup>>

\* generate_dynamic_response(context) returns: it has no await on its way
GenerateDynamicResponse ==
    /\ \E x \in Situations :
          IF ~llm_enabled
          THEN /\ \E r \in _get_random_response("clarify") :
                     said' = [op |-> "generate_dynamic_response", input |-> x, response |-> r]
               /\ UNCHANGED context
          ELSE /\ context' = generate_dynamic_response_context(context, x)
               /\ said' = [op |-> "generate_dynamic_response", input |-> x,
                           response |-> "Copy that."]
    /\ UNCHANGED <<servers, llm_enabled, cache, preload, lookup>>

\* reset_context()
ResetContext ==
    /\ context' = <<>>
    /\ UNCHANGED <<servers, said, llm_enabled, cache, preload, lookup>>

\* ----------------------------------------------------------- specifications

\* the steps of the connections
Connections ==
    \/ \E s \in Sessions : Accept(s)
    \/ \E s \in Sessions : Arrive(s)
    \/ \E s \in Sessions : Disconnect(s)
    \/ \E s \in Sessions : Receive(s)
    \/ \E s \in Sessions : Transcribe(s)
    \/ \E s \in Sessions : Synthesize(s)
    \/ \E s \in Sessions : Send(s)
    \/ \E s \in Sessions : HandlerEnd(s)

Next ==
    \/ InitializeOk
    \/ InitializeFail
    \/ Connections

\* the server run through start()
NextStart ==
    \/ StartOk
    \/ StartFail
    \/ HeartbeatRound
    \/ \E s \in Sessions : Ping(s)
    \/ RoundEnd
    \/ Connections

\* OverwatchServer, handle_client served on the object
Spec == Init /\ [][Next]_vars

\* SimpleOverwatchServer
SpecSimple == InitSimple /\ [][Next]_vars

\* either class
SpecAny == InitAny /\ [][Next]_vars

\* OverwatchServer run through start()
SpecStart == InitStart /\ [][NextStart]_vars

NextParser == ParseUtterance

\* CommandParser.parse on the texts of Inputs
SpecParser == InitParser /\ [][NextParser]_vars

NextDialogue ==
    \/ GenerateResponse
    \/ InitializeLlm
    \/ GenerateDynamicResponse
    \/ ResetContext

NextCache ==
    \/ EngineInitialize
    \/ PreloadStart
    \/ PreloadLine
    \/ Get
    \/ GetOrGenerate
    \/ GetOrGenerateSynthesized

\* VoiceLineCache, called on its own
SpecCache == InitCache /\ [][NextCache]_vars

\* LLMDialogueManager, called on its own
SpecDialogue == InitDialogue /\ [][NextDialogue]_vars

\* -------------------------------------------------------------- properties

\* the types of a sequence of envelopes
EnvTypes(envelopes) == [i \in 1..Len(envelopes) |-> envelopes[i].type]

IsPrefix(a, b) == Len(a) <= Len(b) /\ a = SubSeq(b, 1, Len(a))

ErrorEnvelope(message) == [type |-> "error", body |-> message]

\* process_message has returned for the envelope of s and every send of it
\* went out: the connection is still open
Complete(s) == log[s].done /\ transport[s] = "open"

\* s processes an Audio envelope, components ready, whose transcription parses to a Command
AudioCommand(s) ==
    /\ server = "OverwatchServer"
    /\ log[s].msg.type = "audio"
    /\ log[s].ready
    /\ log[s].stt \in Utterances \ {""}
    /\ Parse[log[s].stt] # NoValue

\* C1: in OverwatchServer, components ready, an Audio envelope whose
\* transcription is non-empty and parses to a Command: what is sent for it is
\* at every moment a prefix of Transcription, Command, Dialogue, Voice, and
\* when synthesis has returned audio and process_message has returned on the
\* open connection it is exactly these four, with the transcribed text, the
\* parsed command, a response of the dialogue manager and the audio.
C1_AudioCommandOrder ==
    \A s \in Sessions :
        AudioCommand(s) =>
            /\ IsPrefix(EnvTypes(sent[s]), <<"transcription", "command", "dialogue", "voice">>)
            /\ (Complete(s) /\ log[s].tts = "audio") =>
                  /\ EnvTypes(sent[s]) = <<"transcription", "command", "dialogue", "voice">>
                  /\ sent[s][1].body = log[s].stt
                  /\ sent[s][2].body = Parse[log[s].stt]
                  /\ sent[s][3].body \in generate_response(Parse[log[s].stt])
                  /\ sent[s][4].body = "audio"

C1_Witness ==
    \E s \in Sessions : AudioCommand(s) /\ Complete(s) /\ log[s].tts = "audio"

\* s has processed, components loaded, a TextCommand envelope whose text parses to a Command
TextCommandParsed(s) ==
    /\ log[s].msg.type = "text_command"
    /\ log[s].loaded
    /\ Parse[log[s].msg.arg] # NoValue

\* C2: a TextCommand envelope whose text parses to a Command, synthesis not
\* failing, yields Command, then Dialogue, then Voice, and no Transcription.
C2_TextCommandVoice ==
    \A s \in Sessions :
        (TextCommandParsed(s) /\ Complete(s) /\ log[s].tts # None) =>
            EnvTypes(sent[s]) = <<"command", "dialogue", "voice">>

\* s processes an Audio envelope that OverwatchServer took while components_ready was false
AudioNotReady(s) ==
    /\ server = "OverwatchServer"
    /\ log[s].msg.type = "audio"
    /\ ~log[s].ready

\* C3: an Audio envelope processed by OverwatchServer while components_ready
\* is false never reaches the transcription collaborator and yields no
\* envelope but one Error: exactly one once process_message has returned on
\* the open connection.
C3_AudioNotReady ==
    \A s \in Sessions :
        AudioNotReady(s) =>
            /\ log[s].stt = "-"
            /\ IsPrefix(EnvTypes(sent[s]), <<"error">>)
            /\ Complete(s) => EnvTypes(sent[s]) = <<"error">>

C3_Witness ==
    \E s \in Sessions : AudioNotReady(s) /\ Complete(s)

\* a request envelope: Audio, or TextCommand or TtsRequest with a non-empty text
IsRequest(m) ==
    \/ m.type = "audio"
    \/ m.type \in {"text_command", "tts_request"} /\ m.arg # ""

\* C4: every request envelope processed before the components are ready
\* yields the Error envelope "Server not ready", and nothing else.
C4_NotReadyError ==
    \A s \in Sessions :
        (server = "OverwatchServer" /\ IsRequest(log[s].msg) /\ ~log[s].ready /\ Complete(s)) =>
            sent[s] = <<ErrorEnvelope("Server not ready")>>

\* s processes an Audio envelope, components ready, whose transcription yields no Command
AudioUnparsed(s) ==
    /\ server = "OverwatchServer"
    /\ log[s].msg.type = "audio"
    /\ log[s].ready
    /\ log[s].stt \in Utterances \ {""}
    /\ Parse[log[s].stt] = NoValue

\* C5: on the audio path, a transcription that yields no Command is followed
\* by Transcription, then one clarification Dialogue, and nothing else: no
\* Command, no Voice, no Error, and synthesis is not called.
C5_AudioClarification ==
    \A s \in Sessions :
        AudioUnparsed(s) =>
            /\ log[s].tts = "-"
            /\ IsPrefix(EnvTypes(sent[s]), <<"transcription", "dialogue">>)
            /\ Complete(s) =>
                  sent[s] = <<[type |-> "transcription", body |-> log[s].stt],
                              [type |-> "dialogue", body |-> "Say again? Did not copy."]>>

C5_Witness ==
    \E s \in Sessions : AudioUnparsed(s) /\ Complete(s)

\* C6: a TextCommand envelope whose non-empty text yields no Command produces
\* exactly one clarification Dialogue envelope.
C6_TextClarification ==
    \A s \in Sessions :
        (/\ log[s].msg.type = "text_command"
         /\ log[s].msg.arg # ""
         /\ log[s].loaded
         /\ Parse[log[s].msg.arg] = NoValue
         /\ Complete(s)) =>
            EnvTypes(sent[s]) = <<"dialogue">>

\* C7: whatever envelopes a connection has sent (unknown, malformed, one whose
\* handler raises), while its transport is open its handle_client task is
\* alive and the connection is in self.clients: only a disconnect removes it.
C7_FailuresKeepSession ==
    \A s \in Sessions :
        transport[s] = "open" => s \in clients /\ pc[s] \notin {"none", "closed"}

\* process_message has returned for an envelope whose handler raised, the
\* connection is registered and its next envelope waits to be taken
C7_Witness ==
    \E s \in Sessions :
        /\ Complete(s)
        /\ log[s].msg.type = "#not_an_object"
        /\ s \in clients
        /\ pc[s] = "idle"
        /\ inbox[s] # <<>>

\* C8: a connection's envelopes are taken in arrival order, one at a time: the
\* next is taken only when process_message has returned for the one before,
\* and what is sent for an envelope is only ever appended to while it is the
\* one in processing.
C8_FifoOneAtATime ==
    [][\A s \in Sessions :
          /\ (log'[s].seq # log[s].seq /\ log'[s].seq # 0) =>
                /\ log'[s].seq = log[s].seq + 1
                /\ pc[s] = "idle"
                /\ log[s].seq = 0 \/ log[s].done
          /\ (sent'[s] # sent[s] /\ sent'[s] # <<>>) =>
                /\ log'[s].seq = log[s].seq
                /\ IsPrefix(sent[s], sent'[s])]_vars

\* the second envelope of a connection is in processing and has sent something
C8_Witness ==
    \E s \in Sessions : log[s].seq = 2 /\ sent[s] # <<>>

\* C9: a message that is no JSON yields exactly one Error envelope, "Invalid
\* message format", and nothing else.
C9_InvalidJsonError ==
    \A s \in Sessions :
        (log[s].msg.type = "#invalid_json" /\ Complete(s)) =>
            sent[s] = <<ErrorEnvelope("Invalid message format")>>

\* s processes an Audio envelope, components ready, whose transcription is absent or empty
AudioUntranscribed(s) ==
    /\ server = "OverwatchServer"
    /\ log[s].msg.type = "audio"
    /\ log[s].ready
    /\ log[s].stt \in {None, ""}

\* C10: components ready, an Audio envelope whose transcription is absent or
\* empty yields exactly one Error envelope and no Transcription, Command,
\* Dialogue or Voice, and the connection stays registered.
C10_AudioUntranscribed ==
    \A s \in Sessions :
        AudioUntranscribed(s) =>
            /\ IsPrefix(EnvTypes(sent[s]), <<"error">>)
            /\ Complete(s) =>
                  /\ EnvTypes(sent[s]) = <<"error">>
                  /\ s \in clients
                  /\ pc[s] = "idle"

C10_Witness ==
    \E s \in Sessions : AudioUntranscribed(s) /\ Complete(s)

\* C11: for an Audio envelope whose transcription parses to a Command, when
\* synthesis returns no audio the router has sent Transcription, Command,
\* Dialogue in that order and nothing else (no Voice, no Error),
\* process_message has returned and the connection is still registered with
\* its handler waiting for the next message.
C11_SynthesisFailureSilent ==
    \A s \in Sessions :
        (AudioCommand(s) /\ log[s].tts = None) =>
            /\ EnvTypes(sent[s]) = <<"transcription", "command", "dialogue">>
            /\ log[s].done
            /\ pc[s] = "idle"
            /\ s \in clients

C11_Witness ==
    \E s \in Sessions : AudioCommand(s) /\ log[s].tts = None /\ Complete(s)

\* C12: in either server class, a TtsRequest with empty text sends nothing and
\* does not call synthesis; one with a non-empty text whose synthesis returned
\* audio sends nothing but one Voice envelope carrying that audio.
C12_TtsRequest ==
    \A s \in Sessions :
        log[s].msg.type = "tts_request" =>
            /\ log[s].msg.arg = "" => (log[s].tts = "-" /\ sent[s] = <<>>)
            /\ (log[s].msg.arg # "" /\ log[s].tts = "audio") =>
                  /\ IsPrefix(EnvTypes(sent[s]), <<"voice">>)
                  /\ Complete(s) => sent[s] = <<[type |-> "voice", body |-> "audio"]>>

\* one connection has its Voice, another has completed a TtsRequest without text
C12_Witness ==
    \E s, t \in Sessions :
        /\ log[s].msg.type = "tts_request" /\ log[s].msg.arg # ""
        /\ log[s].tts = "audio" /\ Complete(s)
        /\ log[t].msg.type = "tts_request" /\ log[t].msg.arg = "" /\ Complete(t)

\* the connections whose handle_client is running
ActiveHandlers == {s \in Sessions : pc[s] \notin {"none", "closed"}}

\* C13: self.clients is exactly the set of connections whose handler is
\* running; a connection whose handler has ended stays ended and out of the
\* registry, nothing more of it is processed or sent, and a heartbeat round
\* that starts afterwards does not target it.
C13_RegistryIsActiveHandlers ==
    /\ [](clients = ActiveHandlers)
    /\ [][\A s \in Sessions :
             pc[s] = "closed" =>
                /\ pc'[s] = "closed"
                /\ s \notin clients'
                /\ log'[s] = log[s] /\ sent'[s] = sent[s] /\ inbox'[s] = inbox[s]
                /\ (heartbeat.state = "sleeping" /\ heartbeat'.state = "gathering") =>
                      s \notin heartbeat'.targets]_vars

\* a round is in progress with a target, and does not target a closed connection
C13_Witness ==
    \E s \in Sessions :
        /\ pc[s] = "closed"
        /\ heartbeat.state = "gathering"
        /\ heartbeat.targets # {}
        /\ s \notin heartbeat.targets

\* C14: a heartbeat round is given every connection registered when it starts;
\* a send of the round fails only on a closed connection, so when the round is
\* over every target still open has its Ping; and the task goes back to sleep
\* after the round, whatever failed in it.
C14_HeartbeatRound ==
    /\ [](service = "serving" => heartbeat.state \in {"sleeping", "gathering"})
    /\ [](\A s \in heartbeat.targets \ (heartbeat.pending \cup heartbeat.pinged) :
             transport[s] = "closed")
    /\ []((heartbeat.state = "gathering" /\ heartbeat.pending = {}) =>
             \A s \in heartbeat.targets : transport[s] = "open" => s \in heartbeat.pinged)
    /\ [][/\ (heartbeat.state = "sleeping" /\ heartbeat'.state = "gathering") =>
                (heartbeat'.targets = clients /\ heartbeat'.pending = clients)
          /\ (heartbeat.state = "gathering" /\ heartbeat.pending = {}
                /\ heartbeat' # heartbeat) => heartbeat'.state = "sleeping"]_vars

\* a round is over in which one send failed and another put its Ping on the wire
C14_Witness ==
    /\ heartbeat.state = "gathering"
    /\ heartbeat.pending = {}
    /\ heartbeat.pinged # {}
    /\ heartbeat.targets \ heartbeat.pinged # {}

\* C15: when the initialization of the transcription collaborator or of the
\* synthesis collaborator fails in start(), start() aborts: components_ready
\* stays false, no heartbeat task exists and no connection is accepted.
C15_InitFailureAborts ==
    (service # "start" /\ (phase = "init_failed" \/ tts_type = "mock")) =>
        /\ service = "aborted"
        /\ ~components_ready
        /\ heartbeat.state = "none"
        /\ clients = {}

\* parse has returned for the utterance
Parsed == result # <<>>

\* the utterance is exactly these phrases, without a grid reference
Said(words) == utterance = [words |-> words, grid |-> <<>>]

\* the unit names with a dash
AlphaDash == <<"alpha-1", "alpha-2", "alpha-3", "alpha-4">>

\* phrases that hold a trigger of an action
ActionPhrases == {"move", "hold", "hold position", "engage", "airstrike"}

\* C16: for N in 1..4, an utterance that names the unit "alpha-N" and then an
\* action yields a Command whose targets is "alpha-N"; "alpha-N hold position"
\* yields action hold.
C16_AlphaDashTargets ==
    \A N \in 1..4 : \A a \in ActionPhrases :
        (Parsed /\ Said(<<AlphaDash[N], a>>)) =>
            /\ result[1] # NoValue
            /\ result[1].targets = AlphaDash[N]
            /\ a = "hold position" => result[1].action = "hold"

\* the utterance is a move order that ends in a grid reference "grid Ln" or "Ln"
MoveToCell ==
    /\ utterance.words \in {<<"move to">>, <<"alpha team", "move to">>}
    /\ utterance.grid # <<>>
    /\ utterance.grid[1] \in {"grid c5", "c5"}

\* C17: for a move order that names the cell of letter L (a..j, index 0..9)
\* and number n in 1..10, the Command has action move, targets all and
\* gridCoord x = 10 * index(L) - 45, z = 10 * (n - 1) - 45, both within
\* -45..45: (-45, -45) for a1, (45, 45) for j10, (-25, -5) for "alpha team move
\* to grid c5".
C17_GridCoordinates ==
    (Parsed /\ MoveToCell /\ utterance.grid[3] \in 1..10) =>
        /\ result[1] # NoValue
        /\ result[1].action = "move"
        /\ result[1].targets = "all"
        /\ result[1].gridCoord = [x |-> 10 * (utterance.grid[2] - 1) - 45,
                                  z |-> 10 * (utterance.grid[3] - 1) - 45]
        /\ result[1].gridCoord.x \in -45..45
        /\ result[1].gridCoord.z \in -45..45
        /\ utterance = [words |-> <<"alpha team", "move to">>, grid |-> <<"grid c5", 3, 5>>]
              => result[1].gridCoord = [x |-> -25, z |-> -5]
        /\ (utterance.grid[2] = 1 /\ utterance.grid[3] = 1)
              => result[1].gridCoord = [x |-> -45, z |-> -45]
        /\ (utterance.grid[2] = 10 /\ utterance.grid[3] = 10)
              => result[1].gridCoord = [x |-> 45, z |-> 45]

C17_Witness ==
    /\ Parsed
    /\ utterance = [words |-> <<"alpha team", "move to">>, grid |-> <<"grid c5", 3, 5>>]

\* the trigger phrases of cease_fire, and the parser's help example
CeaseFirePhrases == {"cease fire", "hold fire", "stop firing", "weapons hold", "Cease fire"}

\* C18: an utterance that is a trigger phrase of cease_fire is parsed to a
\* Command with action cease_fire.
C18_CeaseFireReachable ==
    \A p \in CeaseFirePhrases :
        (Parsed /\ Said(<<p>>)) => (result[1] # NoValue /\ result[1].action = "cease_fire")

\* the text the parser scans: lower-cased, stripped, normalized
Normalized == _normalize_phonetics(strip(lower(Text(utterance))))

\* the actions, by their place in the table, with a trigger phrase in the text
Triggered(text) ==
    {i \in 1..Len(action_keywords) :
        \E k \in 1..Len(action_keywords[i].keywords) :
            Contains(text, action_keywords[i].keywords[k])}

\* C19: parse returns None exactly when no trigger phrase of any action occurs
\* in the normalized text; a Command it returns has one of the five actions
\* and one of the five targets.
C19_NoneIffNoTrigger ==
    Parsed =>
        /\ (result[1] = NoValue) <=> (Triggered(Normalized) = {})
        /\ result[1] # NoValue =>
              /\ result[1].action \in {"move", "hold", "engage", "cease_fire", "airstrike"}
              /\ result[1].targets \in {"all", "alpha-1", "alpha-2", "alpha-3", "alpha-4"}

\* parse has returned None for "xyz nonsense"
C19_Witness == Parsed /\ Said(<<"xyz nonsense">>) /\ result[1] = NoValue

\* C20: when trigger phrases of several actions occur in the text, the Command
\* has the action among them that the table move, hold, engage, cease_fire,
\* airstrike declares first, wherever the phrases stand in the text.
C20_EarlierActionWins ==
    (Parsed /\ Triggered(Normalized) # {}) =>
        /\ result[1] # NoValue
        /\ \E i \in Triggered(Normalized) :
              /\ \A j \in Triggered(Normalized) : i <= j
              /\ result[1].action = action_keywords[i].name
              /\ result[1].action = <<"move", "hold", "engage", "cease_fire", "airstrike">>[i]

\* the trigger of the action declared last stands first in the text
C20_Witness ==
    /\ Parsed
    /\ Said(<<"airstrike", "move">>)
    /\ Triggered(Normalized) = {1, 5}

\* the utterance is a move order of the squad that ends in a grid reference
SquadMoveToCell ==
    /\ utterance.words \in {<<"move to">>, <<"alpha team", "move to">>}
    /\ utterance.grid # <<>>

\* C21: for a move order of the squad whose grid reference, in any of the
\* three spoken forms, has a number outside 1..10 (0, 11 or more), parse
\* returns a Command, with action move, and its gridCoord is None.
C21_GridNumberOutOfRange ==
    (Parsed /\ SquadMoveToCell /\ utterance.grid[3] \notin 1..10) =>
        /\ result[1] # NoValue
        /\ result[1].action = "move"
        /\ result[1].gridCoord = NoValue

\* parse has returned for "move to a11"
C21_Witness ==
    /\ Parsed
    /\ utterance = [words |-> <<"move to">>, grid |-> <<"c5", 1, 11>>]
    /\ result[1] # NoValue

\* the index after the word that starts at i
RECURSIVE WordEnd(_, _)
WordEnd(text, i) ==
    IF i <= Len(text) /\ IsWordChar(text[i]) THEN WordEnd(text, i + 1) ELSE i

\* what a table of words gives for w: its replacement, or w when it is not there
Replaced(table, w) ==
    IF \E k \in 1..Len(table) : table[k][1] = w
    THEN table[CHOOSE k \in 1..Len(table) : table[k][1] = w][2]
    ELSE w

\* the text from i on, read one whole word at a time: a phonetic word with no
\* digit after it becomes its letter, a number word its digits, anything else
\* stays as it is
RECURSIVE WordByWord(_, _)
WordByWord(text, i) ==
    IF i > Len(text) THEN <<>>
    ELSE IF ~IsWordChar(text[i]) THEN <<text[i]>> \o WordByWord(text, i + 1)
    ELSE LET e == WordEnd(text, i)
             w == SubSeq(text, i, e - 1)
             n == SkipSpaces(text, e)
             digitFollows == n <= Len(text) /\ IsDigit(text[n])
         IN  (IF digitFollows THEN Replaced(word_to_number, w)
              ELSE Replaced(word_to_number, Replaced(phonetic_to_letter, w)))
             \o WordByWord(text, e)

\* the text handed to _normalize_phonetics
Scanned == strip(lower(Text(utterance)))

\* C22: the normalized text is the text read word by word, where a whole word
\* alpha..juliet with no digit right after it (spaces apart) is replaced by its
\* letter a..j, one followed by a digit is left as it is, a whole word
\* zero..ten is replaced by its digits, and nothing else changes: "alpha 1"
\* stays "alpha 1", "move to alpha five" becomes "move to a 5", and "alphabet"
\* and "everyone" stay as they are.
C22_NormalizeWholeWords ==
    Parsed =>
        /\ Normalized = WordByWord(Scanned, 1)
        /\ Said(<<"alpha 1">>) => Normalized = Lexicon["alpha 1"]
        /\ Said(<<"move to alpha five">>) =>
              Normalized = <<"m", "o", "v", "e", " ", "t", "o", " ", "a", " ", "5">>
        /\ Said(<<"alphabet">>) => Normalized = Lexicon["alphabet"]
        /\ Said(<<"everyone">>) => Normalized = Lexicon["everyone"]

\* a text with a unit name kept and a phonetic word and a number word replaced
C22_Witness ==
    /\ Parsed
    /\ Said(<<"alpha 1", "move to alpha five">>)
    /\ Normalized # Scanned

\* generate_response has returned for an airstrike command
AirstrikeSaid == said.op = "generate_response" /\ said.input.action = "airstrike"

\* the delay the command gives, 3 when it gives none
SaidDelay ==
    IF "params" \in DOMAIN said.input /\ "delay" \in DOMAIN said.input.params
    THEN said.input.params.delay
    ELSE 3

\* C23: the response to an airstrike command is one of the three airstrike
\* templates with its {delay} replaced by the number the command gives in
\* params.delay, by 3 when it gives none; no response is a template as
\* written, with "{delay}" in it.
C23_AirstrikeDelay ==
    AirstrikeSaid =>
        /\ said.response \in
              {"Airstrike inbound. Impact in " \o ToString(SaidDelay) \o " seconds.",
               "Copy, calling in air support. " \o ToString(SaidDelay) \o " seconds to impact.",
               "Ordnance on the way. Danger close in " \o ToString(SaidDelay) \o "."}
        /\ said.response \notin
              {"Airstrike inbound. Impact in {delay} seconds.",
               "Copy, calling in air support. {delay} seconds to impact.",
               "Ordnance on the way. Danger close in {delay}."}
        /\ said.input = [action |-> "airstrike", params |-> [type |-> "precision"]] =>
              said.response \in {"Airstrike inbound. Impact in 3 seconds.",
                                 "Copy, calling in air support. 3 seconds to impact.",
                                 "Ordnance on the way. Danger close in 3."}

\* an airstrike with a delay of 5 has its response
C23_Witness ==
    /\ AirstrikeSaid
    /\ said.input = [action |-> "airstrike", params |-> [delay |-> 5]]
    /\ said.response = "Airstrike inbound. Impact in 5 seconds."

\* C28: after any calls of generate_dynamic_response and reset_context,
\* self.context holds at most max_context_length (10) entries.
C28_ContextBounded == Len(context) <= 10

\* C24: when a preload has gone through its lines, every line whose synthesis
\* succeeded in it is in the cache, the lines after a failed one included, and
\* get finds it as written and in any other case; a failed synthesis moves
\* preload on to the next line; and a get made after a preload in which every
\* synthesis succeeded is a hit for every line.
C24_PreloadHits ==
    /\ [](preload.state = "done" =>
             \A i \in 1..Len(Lines) :
                i \notin preload.failed =>
                    /\ get(cache, Lines[i]) # NoValue
                    /\ get(cache, lower(Lines[i])) # NoValue
                    /\ i = 1 => get(cache, Shouted) # NoValue)
    /\ [][/\ (preload.state = "running" /\ preload' # preload) =>
                \/ preload'.state = "running" /\ preload'.line = preload.line + 1
                \/ preload'.state = "done" /\ preload.line = Len(Lines)
          /\ (/\ preload.state = "done" /\ preload.failed = {}
              /\ lookup' # lookup /\ lookup'.op = "get"
              /\ lookup'.text # Unlisted) => lookup'.result # NoValue]_vars

\* a preload is over in which the second line failed: the last line is
\* cached, the second is not, and get has found the first line asked in upper case
C24_Witness ==
    /\ preload.state = "done"
    /\ preload.failed = {2}
    /\ lower(Lines[2]) \notin DOMAIN cache
    /\ get(cache, Lines[Len(Lines)]) # NoValue
    /\ lookup.op = "get" /\ lookup.text = Shouted /\ lookup.result # NoValue

\* C25: only preload writes the cache: no get and no get_or_generate changes
\* it, its keys are lines of the preload in lower case, so a phrase that is on
\* no list is never found by get; get_or_generate for such a phrase finds
\* nothing cached and returns what synthesis gives, audio whenever synthesis
\* does not fail.
C25_GenerateDoesNotCache ==
    /\ [](DOMAIN cache \subseteq {lower(Lines[i]) : i \in 1..Len(Lines)})
    /\ [](get(cache, Unlisted) = NoValue)
    /\ []((lookup.op = "get_or_generate" /\ lookup.state = "returned"
              /\ lookup.text = Unlisted) =>
             /\ lookup.cached = NoValue
             /\ lookup.result \in VoiceAudio(Unlisted, lookup.speaker)
             /\ tts_type = "mock" => lookup.result # NoValue)
    /\ [][lookup' # lookup => cache' = cache]_vars

\* get_or_generate has returned audio for the phrase that is on no list, after
\* a preload, and get still does not find the phrase
C25_Witness ==
    /\ preload.state = "done"
    /\ lookup.op = "get_or_generate" /\ lookup.state = "returned"
    /\ lookup.text = Unlisted
    /\ lookup.result # NoValue
    /\ get(cache, Unlisted) = NoValue

\* C26: a key of the cache keeps the audio it was first given: no later step
\* replaces it.
C26_WriteOnce ==
    [][\A k \in DOMAIN cache : k \in DOMAIN cache' /\ cache'[k] = cache[k]]_vars

\* a is audio that synthesis gives for this speaker
VoicedFor(a, speaker) == \E t \in LookupTexts : a \in VoiceAudio(t, speaker)

\* C27: what get_or_generate(text, speaker) returns is audio synthesized for
\* that speaker, whether it comes from the cache or from synthesis.
C27_KeyedBySpeaker ==
    (lookup.op = "get_or_generate" /\ lookup.state = "returned"
        /\ lookup.result # NoValue) =>
        VoicedFor(lookup.result, lookup.speaker)

\* C30: "move to" followed by a phonetic letter alpha..juliet and a number
\* 1..10 yields a Command whose gridCoord is the cell of that letter and that
\* number; "move to charlie 7" gives cell C7, (-25, 15).
C30_PhoneticGridCell ==
    (/\ Parsed
     /\ utterance.words = <<"move to">>
     /\ utterance.grid # <<>>
     /\ utterance.grid[1] = "charlie 5"
     /\ utterance.grid[3] \in 1..10) =>
        /\ result[1] # NoValue
        /\ result[1].gridCoord = [x |-> 10 * (utterance.grid[2] - 1) - 45,
                                  z |-> 10 * (utterance.grid[3] - 1) - 45]
        /\ (utterance.grid[2] = 3 /\ utterance.grid[3] = 7) =>
              result[1].gridCoord = [x |-> -25, z |-> 15]

\* a send of s is about to fail: its connection closed while the envelope was in flight
SendOnClosed(s) == pc[s] \in SendLabels /\ transport[s] = "closed"

\* C29: when a send of a connection fails because the connection has closed,
\* the failure stays with that connection. A failed Voice send is logged
\* inside generate_and_send_tts: process_message returns, nothing is sent,
\* and the handler goes back to its loop, where the closed connection ends it
\* and takes it out of self.clients. Any other failed send ends the handler
\* at once, out of self.clients. In both cases every other connection, the
\* heartbeat task and the components are as they were before the step.
C29_ClosedInFlight ==
    [][\A s \in Sessions :
          /\ (SendOnClosed(s) /\ pc'[s] # pc[s]) =>
                /\ IF pc[s] = "send_voice"
                   THEN /\ pc'[s] = "idle"
                        /\ s \in clients'
                        /\ sent'[s] = sent[s]
                        /\ log'[s].done
                   ELSE /\ pc'[s] = "closed"
                        /\ s \notin clients'
                /\ \A t \in Sessions \ {s} :
                      /\ pc'[t] = pc[t] /\ cur'[t] = cur[t] /\ log'[t] = log[t]
                      /\ sent'[t] = sent[t] /\ inbox'[t] = inbox[t]
                      /\ transport'[t] = transport[t]
                      /\ (t \in clients') <=> (t \in clients)
                /\ heartbeat' = heartbeat
                /\ service' = service
                /\ components_ready' = components_ready
          /\ (pc[s] = "idle" /\ transport[s] = "closed" /\ inbox[s] = <<>>
                /\ pc'[s] # pc[s]) =>
                (pc'[s] = "closed" /\ s \notin clients')]_vars

\* the Voice send of a connection has failed after Transcription, Command and
\* Dialogue went out; another connection is being served and a heartbeat round runs
C29_Witness ==
    \E s, t \in Sessions :
        /\ s # t
        /\ transport[s] = "closed"
        /\ pc[s] = "idle"
        /\ log[s].done
        /\ log[s].tts = "audio"
        /\ EnvTypes(sent[s]) = <<"transcription", "command", "dialogue">>
        /\ pc[t] \notin {"none", "closed"}
        /\ heartbeat.state = "gathering"

\* C31: in OverwatchServer run through start(), whenever self.clients is not
\* empty, components_ready is true and the transcription model, the parser,
\* the synthesis engine and the dialogue manager are set and initialized; and
\* components_ready, once true, stays true.
C31_ReadyBeforeSessions ==
    /\ [](clients # {} =>
             /\ components_ready
             /\ stt = "initialized"
             /\ command_parser
             /\ tts /\ tts_type # None
             /\ dialogue)
    /\ [][components_ready => components_ready']_vars

\* a connection is registered and its Audio envelope was taken with the components ready
C31_Witness ==
    \E s \in Sessions :
        /\ s \in clients
        /\ components_ready
        /\ log[s].msg.type = "audio"
        /\ log[s].ready

\* C32: an utterance that names a unit as "alpha N" has no gridCoord when it
\* names no cell ("alpha 1 hold"), and the coordinates of the cell it names
\* when it names one ("alpha 1 move to grid c5", cell C5: (-25, -5)).
C32_CallsignIsNoGrid ==
    Parsed =>
        /\ \A a \in ActionPhrases :
              Said(<<"alpha 1", a>>) =>
                  (result[1] # NoValue /\ result[1].gridCoord = NoValue)
        /\ (/\ utterance.words = <<"alpha 1", "move to">>
            /\ utterance.grid # <<>>
            /\ utterance.grid[1] \in {"grid c5", "c5"}
            /\ utterance.grid[3] \in 1..10) =>
              /\ result[1] # NoValue
              /\ result[1].gridCoord = [x |-> 10 * (utterance.grid[2] - 1) - 45,
                                        z |-> 10 * (utterance.grid[3] - 1) - 45]

\* C33: an utterance that says "everyone" and names no unit yields a Command
\* whose targets is "all": "everyone move", "everyone hold".
C33_EveryoneIsAll ==
    \A a \in ActionPhrases :
        (Parsed /\ (Said(<<"everyone", a>>) \/ Said(<<a, "everyone">>))) =>
            (result[1] # NoValue /\ result[1].targets = "all")

====
